---- MODULE Spec2Model ----
(***************************************************************************)
(* A model of tsne.py: the embedding engine tsne() (input check, PCA,      *)
(* perplexity calibration, symmetrisation of P, the optimizer loop) and    *)
(* the binary search of x2p().                                             *)
(*                                                                         *)
(* Numbers.  The program computes in float64.  The model carries           *)
(*   - affinities (P, num, Q, PQ, dY) exactly, as r + e * 1e-12 with r, e  *)
(*     rationals ("Num"): every value the program forms from the floor     *)
(*     1e-12 is of that shape;                                             *)
(*   - gains in fixed point with GainScale units per 1.0, products cut     *)
(*     toward zero;                                                        *)
(*   - the embedding Y and the velocity iY on a bounded integer lattice:   *)
(*     the value the update line computes is rounded away from zero and    *)
(*     saturated at MaxCoord / MaxVel (Quantize), so a sign is never lost; *)
(*   - the precisions of x2p exactly, as m * 2^e ("Dy").                   *)
(* exp and log cannot be evaluated: x2p's result inside tsne is drawn from *)
(* a family of row-stochastic matrices (RawOf), and inside x2p the sign of *)
(* Hdiff after each evaluation of Hbeta is drawn from a family of entropy  *)
(* scripts (ScriptOf).                                                      *)
(***************************************************************************)
EXTENDS Integers, Sequences, FiniteSets, TLC

\* ---------------------------------------------------------------- bounds
\* number of points n = X.shape[0] in a run of tsne
N == 3
\* the lattice of the velocity: elements in -MaxVel .. MaxVel
MaxVel == 1
\* number of seeds of the random generator behind Math.random.randn
NSeeds == 2
\* number of inputs X (each with its calibration result)
NRaw == 3

\* number of evaluations of Hbeta an entropy script may answer freely
MaxTail == 3

\* the lattice of the embedding: the widest on which the exact sums of the
\* kernel stay within TLC's integers
Coords == -1 .. 1

MaxCoord == CHOOSE k \in Coords : \A j \in Coords : j <= k

\* ------------------------------------------------------ program constants
no_dims == 2
max_iter == 1000
MaxTries == 50
eta == 500
stop_lying_iter == 100
exaggeration == 4
momentum_switch_iter == 20
\* fixed-point units per 1.0 of an element of gains
GainScale == 1000

Idx == 0 .. (N - 1)
Dim == 0 .. (no_dims - 1)

\* ------------------------------------------------------------- rationals
Abs(a) == IF a < 0 THEN -a ELSE a

Sgn(a) == IF a > 0 THEN 1 ELSE IF a < 0 THEN -1 ELSE 0

RECURSIVE Gcd(_, _)
Gcd(a, b) == IF b = 0 THEN a ELSE Gcd(b, a % b)

\* the rational n / d in lowest terms, d > 0
Rat(n, d) ==
  LET g == Gcd(Abs(n), Abs(d))
      s == IF d < 0 THEN -1 ELSE 1
  IN  [n |-> (s * n) \div g, d |-> (s * d) \div g]

RInt(k) == [n |-> k, d |-> 1]

RAdd(a, b) ==
  LET g == Gcd(a.d, b.d)
  IN  Rat(a.n * (b.d \div g) + b.n * (a.d \div g), (a.d \div g) * b.d)

RNeg(a) == [n |-> -a.n, d |-> a.d]

RSub(a, b) == RAdd(a, RNeg(b))

RMul(a, b) ==
  LET g1 == Gcd(Abs(a.n), b.d)
      g2 == Gcd(Abs(b.n), a.d)
      h1 == IF g1 = 0 THEN 1 ELSE g1
      h2 == IF g2 = 0 THEN 1 ELSE g2
  IN  Rat((a.n \div h1) * (b.n \div h2), (a.d \div h2) * (b.d \div h1))

\* a / b, b # 0
RDiv(a, b) == RMul(a, Rat(b.d, b.n))

\* ------------------------------------------- numbers r + e * 1e-12 ("Num")
Num(r, e) == [r |-> r, e |-> e]

NRat(q) == Num(q, RInt(0))

NInt(k) == NRat(RInt(k))

Zero == NInt(0)

\* the floor 1e-12 of Math.maximum(P, 1e-12) and Math.maximum(Q, 1e-12)
Eps == Num(RInt(0), RInt(1))

NAdd(x, y) == Num(RAdd(x.r, y.r), RAdd(x.e, y.e))

NSub(x, y) == Num(RSub(x.r, y.r), RSub(x.e, y.e))

\* x * q and x / q for a rational q
NScale(x, q) == Num(RMul(x.r, q), RMul(x.e, q))

NUnscale(x, q) == Num(RDiv(x.r, q), RDiv(x.e, q))

\* the sign of r + e * 1e-12: numerators and denominators are below 2^31,
\* so a non-zero r outweighs e * 1e-12
NSign(x) == IF x.r.n # 0 THEN Sgn(x.r.n) ELSE Sgn(x.e.n)

NLess(x, y) == NSign(NSub(x, y)) < 0

\* Math.maximum on one element
Maximum(x, y) == IF NLess(x, y) THEN y ELSE x

\* sum of f[0], ..., f[k-1]
RECURSIVE SumTo(_, _)
SumTo(f, k) == IF k = 0 THEN Zero ELSE NAdd(SumTo(f, k - 1), f[k - 1])

\* Math.sum of a matrix
MatSum(M) == SumTo([i \in Idx |-> SumTo(M[i], N)], N)

Transpose(M) == [i \in Idx |-> [j \in Idx |-> M[j][i]]]


\* ------------------------------------------------------ fixed-point gains
\* q as a count of gain units, cut toward zero
Fix(q) == (q.n * GainScale) \div q.d

min_gain == Rat(1, 100)

gain_step == Rat(2, 10)

gain_decay == Rat(8, 10)

initial_momentum == Rat(5, 10)

final_momentum == Rat(8, 10)

\* g * q for a gain g in units and a rational q, cut toward zero
FixMul(g, q) == (g * q.n) \div q.d

\* ----------------------------------------------------------- the lattice
\* x rounded away from zero to an integer and saturated at m: the least k in
\* 0 .. m with |x| <= k (m when there is none), with the sign of x
RECURSIVE CeilTo(_, _, _)
CeilTo(a, k, m) ==
  IF k >= m \/ ~NLess(NInt(k), a) THEN k ELSE CeilTo(a, k + 1, m)

Quantize(x, m) ==
  LET s == NSign(x)
      a == IF s < 0 THEN NSub(Zero, x) ELSE x
  IN  s * CeilTo(a, 0, m)

\* ------------------------------------------------------------ the inputs
DTypes == {"float64", "float32", "int64"}

\* initial_dims != X.shape[1] for input s
NeedsPca(s) == s % 2 = 1

\* The matrix x2p returns for input s: zero diagonal, every row a distribution
\* over the other points.  A sharp row puts all its mass on one neighbour (the
\* other weights underflow to 0 in exp), a flat row is uniform.
RawRow(s, i) ==
  LET kind == s % 3
      c == (s \div 3) % N
      hot == IF kind = 1 THEN (IF i = c THEN (c + 1) % N ELSE c)
                         ELSE (i + 1) % N
      sharp == (kind = 1) \/ (kind = 2 /\ i % 2 = 0)
  IN  [j \in Idx |->
         IF j = i THEN Zero
         ELSE IF sharp THEN (IF j = hot THEN NInt(1) ELSE Zero)
         ELSE NRat(Rat(1, N - 1))]

RawOf(s) == [i \in Idx |-> RawRow(s, i)]

\* Math.random.randn(n, no_dims) for generator seed s, on the lattice
Randn(s) ==
  [i \in Idx |-> [c \in Dim |->
     (((s + 1) * (i + 1) + c * (i + s)) % (2 * MaxCoord + 1)) - MaxCoord]]

Zeros == [i \in Idx |-> [c \in Dim |-> 0]]

Ones == [i \in Idx |-> [c \in Dim |-> Fix(RInt(1))]]

\* the value of a name that is not bound yet
Unset == <<>>

NoResult == [kind |-> "none"]

\* ------------------------------------------------------------- variables
VARIABLES
  pc,       \* position in tsne
  X,        \* the input array: dtype, the input it stands for, whether projected
  seed,     \* state of the global random generator
  ret,      \* what tsne returned
  Y, dY, iY, gains,
  P,        \* the joint affinities (lines 124-128, 162)
  iter,     \* index of the iteration about to run / running
  num, Q, PQ,
  momentum

tvars == <<pc, X, seed, ret, Y, dY, iY, gains, P, iter, num, Q, PQ, momentum>>

\* the state of a run of x2p
VARIABLES xpc, data, pt, beta, betamin, betamax, Hdiff, tries, thisP, xP

xvars == <<xpc, data, pt, beta, betamin, betamax, Hdiff, tries, thisP, xP>>

vars == <<tvars, xvars>>

\* the variables of the function that is not running
TsneIdle ==
  /\ pc = "idle"
  /\ X = Unset /\ seed = 0 /\ ret = NoResult
  /\ Y = Unset /\ dY = Unset /\ iY = Unset /\ gains = Unset
  /\ P = Unset /\ num = Unset /\ Q = Unset /\ PQ = Unset
  /\ iter = 0 /\ momentum = Unset

X2pIdle ==
  /\ xpc = "idle"
  /\ data = 0 /\ pt = 0
  /\ beta = Unset /\ xP = Unset
  /\ betamin = Unset /\ betamax = Unset
  /\ Hdiff = 0 /\ tries = 0
  /\ thisP = Unset

\* ---------------------------------------------------------------- tsne
TsneInit ==
  /\ pc = "check"
  /\ X \in [dtype : DTypes, input : 0 .. (NRaw - 1), projected : {FALSE}]
  /\ seed \in 0 .. (NSeeds - 1)
  /\ ret = NoResult
  /\ Y = Unset /\ dY = Unset /\ iY = Unset /\ gains = Unset
  /\ P = Unset /\ num = Unset /\ Q = Unset /\ PQ = Unset
  /\ iter = 0
  /\ momentum = Unset
  /\ X2pIdle

\* the check without its return: the error is printed and the run goes on
CheckInputsNoReturn ==
  /\ pc = "check"
  /\ ret' = ret
  /\ pc' = "pca"
  /\ UNCHANGED <<X, seed, Y, dY, iY, gains, P, iter, num, Q, PQ, momentum, xvars>>

\* lines 101-104: the check of the input's dtype
CheckInputs ==
  /\ pc = "check"
  /\ IF X.dtype # "float64"
       THEN /\ ret' = [kind |-> "int", val |-> -1]
            /\ pc' = "returned"
       ELSE /\ ret' = ret
            /\ pc' = "pca"
  /\ UNCHANGED <<X, seed, Y, dY, iY, gains, P, iter, num, Q, PQ, momentum, xvars>>

\* lines 110-111: X = pca(X, initial_dims).real
Pca ==
  /\ pc = "pca"
  /\ X' = IF NeedsPca(X.input) THEN [X EXCEPT !.projected = TRUE] ELSE X
  /\ pc' = "init"
  /\ UNCHANGED <<seed, ret, Y, dY, iY, gains, P, iter, num, Q, PQ, momentum, xvars>>

\* lines 112-121
InitVars ==
  /\ pc = "init"
  /\ Y' = Randn(seed)
  /\ seed' = (seed + 1) % NSeeds
  /\ dY' = [i \in Idx |-> [c \in Dim |-> Zero]]
  /\ iY' = Zeros
  /\ gains' = Ones
  /\ pc' = "x2p"
  /\ UNCHANGED <<X, ret, P, iter, num, Q, PQ, momentum, xvars>>

\* line 124: P = x2p(X, 1e-5, perplexity)
ComputeP ==
  /\ pc = "x2p"
  /\ P' = RawOf(X.input)
  /\ pc' = "symmetrize"
  /\ UNCHANGED <<X, seed, ret, Y, dY, iY, gains, iter, num, Q, PQ, momentum, xvars>>

\* P + P, the transpose forgotten
AddedToItself(M) == [i \in Idx |-> [j \in Idx |-> NAdd(M[i][j], M[i][j])]]

\* line 125: P = P + Math.transpose(P)
Symmetrized(M) ==
  LET T == Transpose(M)
  IN  [i \in Idx |-> [j \in Idx |-> NAdd(M[i][j], T[i][j])]]

Symmetrize ==
  /\ pc = "symmetrize"
  /\ P' = Symmetrized(P)
  /\ pc' = "normalize"
  /\ UNCHANGED <<X, seed, ret, Y, dY, iY, gains, iter, num, Q, PQ, momentum, xvars>>

\* line 126: P = P / Math.sum(P)   (also line 136 for num)
Normalized(M) ==
  LET s == MatSum(M).r
  IN  [i \in Idx |-> [j \in Idx |-> NUnscale(M[i][j], s)]]

Normalize ==
  /\ pc = "normalize"
  /\ P' = Normalized(P)
  /\ pc' = "exaggerate"
  /\ UNCHANGED <<X, seed, ret, Y, dY, iY, gains, iter, num, Q, PQ, momentum, xvars>>

\* line 127: P = P * 4
Exaggerated(M) == [i \in Idx |-> [j \in Idx |-> NScale(M[i][j], RInt(exaggeration))]]

Exaggerate ==
  /\ pc = "exaggerate"
  /\ P' = Exaggerated(P)
  /\ pc' = "floor"
  /\ UNCHANGED <<X, seed, ret, Y, dY, iY, gains, iter, num, Q, PQ, momentum, xvars>>

\* no floor at all
NotFloored(M) == M

\* lines 128 and 137: Math.maximum(M, 1e-12)
Floored(M) == [i \in Idx |-> [j \in Idx |-> Maximum(M[i][j], Eps)]]

\* a loop that stops one iteration short
LoopPcShort(k) == IF k < max_iter - 1 THEN "affinities" ELSE "return"

\* line 131: the next position of "for iter in range(max_iter)"
LoopPc(k) == IF k < max_iter THEN "affinities" ELSE "return"

FloorP ==
  /\ pc = "floor"
  /\ P' = Floored(P)
  /\ iter' = 0
  /\ pc' = LoopPc(0)
  /\ UNCHANGED <<X, seed, ret, Y, dY, iY, gains, num, Q, PQ, momentum, xvars>>

\* lines 133-134: num = 1 / (1 + squared distance), from sum_Y and Y.Y^T
SumY(y) == [i \in Idx |-> y[i][0] * y[i][0] + y[i][1] * y[i][1]]

Dot(y, i, j) == y[i][0] * y[j][0] + y[i][1] * y[j][1]

Kernel(y) ==
  LET sum_Y == SumY(y)
  IN  [i \in Idx |-> [j \in Idx |->
         NRat(Rat(1, 1 + ((-2 * Dot(y, i, j) + sum_Y[i]) + sum_Y[j])))]]

\* the diagonal left as the kernel gives it
KeepDiagonal(M) == M

\* line 135: num[range(n), range(n)] = 0
ZeroDiagonal(M) == [i \in Idx |-> [j \in Idx |-> IF i = j THEN Zero ELSE M[i][j]]]

\* lines 133-137
Affinities ==
  /\ pc = "affinities"
  /\ num' = ZeroDiagonal(Kernel(Y))
  /\ Q' = Floored(Normalized(num'))
  /\ pc' = "gradient"
  /\ UNCHANGED <<X, seed, ret, Y, dY, iY, gains, P, iter, PQ, momentum, xvars>>

\* lines 140-142: PQ = P - Q and
\* dY[i,:] = sum over j of PQ[j,i] * num[j,i] * (Y[i,:] - Y[j,:])
Difference(A, B) == [i \in Idx |-> [j \in Idx |-> NSub(A[i][j], B[i][j])]]

GradientOf(pq, k, y) ==
  [i \in Idx |-> [c \in Dim |->
     SumTo([j \in Idx |->
              NScale(pq[j][i], RMul(k[j][i].r, RInt(y[i][c] - y[j][c])))], N)]]

Gradient ==
  /\ pc = "gradient"
  /\ PQ' = Difference(P, Q)
  /\ dY' = GradientOf(PQ', num, Y)
  /\ pc' = "update"
  /\ UNCHANGED <<X, seed, ret, Y, iY, gains, P, iter, num, Q, momentum, xvars>>

\* lines 145-148
MomentumAt(k) == IF k < momentum_switch_iter THEN initial_momentum ELSE final_momentum

\* a comparison as the 0 / 1 it multiplies as
B(b) == IF b THEN 1 ELSE 0

\* line 149 with its two comparisons exchanged
AdaptGainSwapped(g, d, v) ==
    (g + Fix(gain_step)) * B((NSign(d) > 0) = (v > 0))
  + FixMul(g, gain_decay) * B((NSign(d) > 0) # (v > 0))

\* line 149, one element: g a gain, d the element of dY, v the element of iY
AdaptGain(g, d, v) ==
    (g + Fix(gain_step)) * B((NSign(d) > 0) # (v > 0))
  + FixMul(g, gain_decay) * B((NSign(d) > 0) = (v > 0))

\* line 150 left out
NoClampGain(g) == g

\* line 150: gains[gains < min_gain] = min_gain
ClampGain(g) == IF g < Fix(min_gain) THEN Fix(min_gain) ELSE g

\* line 151, one element: momentum * iY - eta * (gains * dY)
Velocity(m, v, g, d) ==
  NSub(NScale(NInt(v), m), NScale(d, RMul(RInt(eta), Rat(g, GainScale))))

\* lines 152-153: Y + iY, less its column mean
Moved(y, v) == [i \in Idx |-> [c \in Dim |-> y[i][c] + v[i][c]]]

ColumnMean(y, c) == NUnscale(SumTo([i \in Idx |-> NInt(y[i][c])], N), RInt(N))

Centered(y) ==
  LET mean == [c \in Dim |-> ColumnMean(y, c)]
  IN  [i \in Idx |-> [c \in Dim |->
         Quantize(NSub(NInt(y[i][c]), mean[c]), MaxCoord)]]

\* the exaggeration removed one iteration earlier
StopsLyingEarly(k) == k = stop_lying_iter - 1

\* line 161: if iter == 100
StopsLying(k) == k = stop_lying_iter

\* line 162: P = P / 4
Unexaggerated(M) == [i \in Idx |-> [j \in Idx |-> NUnscale(M[i][j], RInt(exaggeration))]]

\* lines 145-162 (the cost of lines 156-158 is printed and changes no state)
Update ==
  /\ pc = "update"
  /\ momentum' = MomentumAt(iter)
  /\ gains' = [i \in Idx |-> [c \in Dim |->
                 ClampGain(AdaptGain(gains[i][c], dY[i][c], iY[i][c]))]]
  /\ iY' = [i \in Idx |-> [c \in Dim |->
              Quantize(Velocity(momentum', iY[i][c], gains'[i][c], dY[i][c]), MaxVel)]]
  /\ Y' = Centered(Moved(Y, iY'))
  /\ P' = IF StopsLying(iter) THEN Unexaggerated(P) ELSE P
  /\ iter' = iter + 1
  /\ pc' = LoopPc(iter + 1)
  /\ UNCHANGED <<X, seed, ret, dY, num, Q, PQ, xvars>>

\* line 165: return Y
Return ==
  /\ pc = "return"
  /\ ret' = [kind |-> "array", val |-> Y]
  /\ pc' = "returned"
  /\ UNCHANGED <<X, seed, Y, dY, iY, gains, P, iter, num, Q, PQ, momentum, xvars>>

TsneNext ==
  \/ CheckInputs
  \/ Pca
  \/ InitVars
  \/ ComputeP
  \/ Symmetrize
  \/ Normalize
  \/ Exaggerate
  \/ FloorP
  \/ Affinities
  \/ Gradient
  \/ Update
  \/ Return

\* ------------------------------------------- x2p: exact precisions m * 2^e
\* m * 2^e with m odd (or m = 0, e = 0)
RECURSIVE Dy(_, _)
Dy(m, e) ==
  IF m = 0 THEN [k |-> "fin", m |-> 0, e |-> 0]
  ELSE IF m % 2 = 0 THEN Dy(m \div 2, e + 1)
  ELSE [k |-> "fin", m |-> m, e |-> e]

PosInf == [k |-> "inf", s |-> 1]

NegInf == [k |-> "inf", s |-> -1]

\* betamax == Math.inf or betamax == -Math.inf
IsInf(a) == a.k = "inf"

\* the sign of a - b for finite a, b; mantissas are below 2^20
DyCmp(a, b) ==
  LET d == a.e - b.e
  IN  IF d >= 20 THEN (IF a.m # 0 THEN Sgn(a.m) ELSE -Sgn(b.m))
      ELSE IF d <= -20 THEN (IF b.m # 0 THEN -Sgn(b.m) ELSE Sgn(a.m))
      ELSE IF d >= 0 THEN Sgn(a.m * (2 ^ d) - b.m)
      ELSE Sgn(a.m - b.m * (2 ^ (-d)))

\* a < b over the finite values and the two infinities
DyLess(a, b) ==
  IF IsInf(a) THEN a.s < 0 /\ ~(IsInf(b) /\ b.s < 0)
  ELSE IF IsInf(b) THEN b.s > 0
  ELSE DyCmp(a, b) < 0

\* beta * 2, beta / 2, (a + b) / 2
Double(a) == Dy(a.m, a.e + 1)

Halve(a) == Dy(a.m, a.e - 1)

Mid(a, b) ==
  LET e0 == IF a.e < b.e THEN a.e ELSE b.e
  IN  Dy(a.m * (2 ^ (a.e - e0)) + b.m * (2 ^ (b.e - e0)), e0 - 1)

\* ---------------------------------------------------- x2p: entropy scripts
\* Hbeta cannot be evaluated (exp, log).  What the search sees of it is the
\* sign of Hdiff = H - logU after each evaluation, 0 standing for
\* |Hdiff| <= tol.  A script answers the evaluations of one point in order:
\* `run` times the sign `head`, then the signs of `tail`, then 0.
ScriptSign(sc, n) ==
  IF n <= sc.run THEN sc.head
  ELSE IF n - sc.run <= Len(sc.tail) THEN sc.tail[n - sc.run]
  ELSE 0

\* the sign sequence that t >= 1 spells in binary below its leading 1
RECURSIVE TailOf(_)
TailOf(t) ==
  IF t <= 1 THEN <<>>
  ELSE Append(TailOf(t \div 2), IF t % 2 = 1 THEN 1 ELSE -1)

NTails == 2 ^ (MaxTail + 1) - 1

\* script k: a free tail alone (kind 0), or after a run of one sign that
\* leaves the search unconverged at the cap of MaxTries updates
ScriptOf(k) ==
  LET kind == k % 3
      tail == TailOf((k \div 3) + 1)
  IN  [head |-> IF kind = 2 THEN -1 ELSE 1,
       run  |-> IF kind = 0 THEN 0 ELSE (MaxTries + 1) - Len(tail),
       tail |-> tail]

NData == 3 * NTails

\* the script of point j of data set d
PointScript(d, j) == ScriptOf((d + 7 * j) % NData)

\* ------------------------------------------------------------------ Hbeta
\* lines 19-27: Hbeta(Di, beta).  The row is named by the point and the
\* precision it was evaluated at; H by the sign of H - logU, which the
\* script gives for the n-th evaluation of the point.
Hbeta(d, j, b, n) ==
  [Hdiff |-> ScriptSign(PointScript(d, j), n), P |-> [pt |-> j, at |-> b]]

\* a row of Math.zeros((n, n))
ZeroRow(j) == [pt |-> j, at |-> [k |-> "zeros"]]

\* -------------------------------------------------------------------- x2p
\* lines 35-40
X2pInit ==
  /\ xpc = "for"
  /\ data \in 0 .. (NData - 1)
  /\ pt = 0
  /\ beta = [j \in Idx |-> Dy(1, 0)]
  /\ xP = [j \in Idx |-> ZeroRow(j)]
  /\ betamin = NegInf /\ betamax = PosInf
  /\ Hdiff = 0 /\ tries = 0
  /\ thisP = ZeroRow(0)
  /\ TsneIdle

\* lines 43-56: the next point, its first evaluation
StartPoint ==
  /\ xpc = "for"
  /\ pt < N
  /\ betamin' = NegInf
  /\ betamax' = PosInf
  /\ thisP' = Hbeta(data, pt, beta[pt], 1).P
  /\ Hdiff' = Hbeta(data, pt, beta[pt], 1).Hdiff
  /\ tries' = 0
  /\ xpc' = "while"
  /\ UNCHANGED <<data, pt, beta, xP, tvars>>

\* the while loop without its cap on tries
SearchingUncapped(h, t) == h # 0

\* line 57: Math.abs(Hdiff) > tol and tries < 50
Searching(h, t) == h # 0 /\ t < MaxTries

\* the midpoint taken with the bound that was just set to beta
BisectWrongBound(h, b, lo, hi) ==
  IF h > 0
    THEN <<b, hi, IF IsInf(hi) THEN Double(b) ELSE Mid(b, b)>>
    ELSE <<lo, b, IF IsInf(lo) THEN Halve(b) ELSE Mid(b, b)>>

\* lines 60-71: the bracket and the precision after one update, as
\* <<betamin, betamax, beta>>
Bisect(h, b, lo, hi) ==
  IF h > 0
    THEN <<b, hi, IF IsInf(hi) THEN Double(b) ELSE Mid(b, hi)>>
    ELSE <<lo, b, IF IsInf(lo) THEN Halve(b) ELSE Mid(b, lo)>>

\* lines 57-76: one pass of the while loop
SearchStep ==
  /\ xpc = "while"
  /\ Searching(Hdiff, tries)
  /\ LET r == Bisect(Hdiff, beta[pt], betamin, betamax)
     IN  /\ betamin' = r[1]
         /\ betamax' = r[2]
         /\ beta' = [beta EXCEPT ![pt] = r[3]]
  /\ thisP' = Hbeta(data, pt, beta'[pt], tries + 2).P
  /\ Hdiff' = Hbeta(data, pt, beta'[pt], tries + 2).Hdiff
  /\ tries' = tries + 1
  /\ UNCHANGED <<xpc, data, pt, xP, tvars>>

\* line 79: the row of the point, then on to the next point
WriteRow ==
  /\ xpc = "while"
  /\ ~Searching(Hdiff, tries)
  /\ xP' = [xP EXCEPT ![pt] = thisP]
  /\ pt' = pt + 1
  /\ xpc' = "for"
  /\ UNCHANGED <<data, beta, betamin, betamax, Hdiff, tries, thisP, tvars>>

\* lines 82-83: return P
X2pReturn ==
  /\ xpc = "for"
  /\ pt >= N
  /\ xpc' = "returned"
  /\ UNCHANGED <<data, pt, beta, betamin, betamax, Hdiff, tries, thisP, xP, tvars>>

X2pNext ==
  \/ StartPoint
  \/ SearchStep
  \/ WriteRow
  \/ X2pReturn

\* ------------------------------------------------------- specifications
\* a call of tsne
Spec == TsneInit /\ [][TsneNext]_vars

\* a call of x2p
SpecX2p == X2pInit /\ [][X2pNext]_vars

\* ------------------------------------------------------------ properties
InLoop == pc \in {"affinities", "gradient", "update"}

AfterFloor == pc \in {"affinities", "gradient", "update", "return"} \/ (pc = "returned" /\ P # Unset)

\* lines 124-128 applied to what x2p returns for each input
PExaggeratedOf ==
  [s \in 0 .. NRaw - 1 |-> Floored(Exaggerated(Normalized(Symmetrized(RawOf(s)))))]

\* and line 162 applied to that
PTrueOf == [s \in 0 .. NRaw - 1 |-> Unexaggerated(PExaggeratedOf[s])]

PExaggerated == PExaggeratedOf[X.input]

PTrue == PTrueOf[X.input]

Failure == [kind |-> "int", val |-> -1]

\* C1: an input whose dtype is not float64 makes tsne return the failure
\* value -1 straight from the check: X is never projected by pca, x2p never
\* runs (P stays unbound), Y, dY, iY and gains are never created, no
\* iteration runs, and what is returned is never an array.
C1_RejectsNonFloat64 ==
  (X.dtype # "float64") =>
     /\ pc \in {"check", "returned"}
     /\ ~X.projected
     /\ Y = Unset /\ dY = Unset /\ iY = Unset /\ gains = Unset
     /\ P = Unset /\ num = Unset /\ Q = Unset /\ PQ = Unset
     /\ iter = 0
     /\ ret \in {NoResult, Failure}
     /\ (pc = "returned" => ret = Failure)

C1_Witness == pc = "returned" /\ X.dtype = "int64" /\ ret = Failure

\* C2 (as stated): in every iteration the Q used for the gradient and the
\* cost has a diagonal that is exactly 0, also after the floor.
C2_QDiagonalZero ==
  (pc \in {"gradient", "update"}) => \A i \in Idx : Q[i][i] = Zero

\* C2 (amended): in every iteration the diagonal of num is exactly 0 and so
\* is the diagonal of num / sum(num); the floor then lifts it, so the Q the
\* gradient and the cost use has the diagonal exactly 1e-12.
C2_QDiagonalIsFloor ==
  (pc \in {"gradient", "update"}) =>
     LET q == Normalized(num)
     IN  \A i \in Idx : /\ num[i][i] = Zero
                        /\ q[i][i] = Zero
                        /\ Q[i][i] = Eps

C2_Witness == pc = "update" /\ iter > stop_lying_iter /\ Q[0][0] = Eps /\ num[0][0] = Zero

\* C3 (as stated): every entry of P is at least 1e-12 from the floor of line
\* 128 on, through every iteration, also after P has been divided by 4.
C3_PAtLeastFloor ==
  AfterFloor => \A i, j \in Idx : ~NLess(P[i][j], Eps)

\* C3 (amended): every entry of P is at least 1e-12 from the floor of line
\* 128 through the iteration with index 100; once that iteration has divided
\* P by 4, every entry is at least 1e-12 / 4 (the floored entries are exactly
\* that), P being floored once and never again.
C3_PFloorUntilUnexaggerated ==
  AfterFloor =>
     LET floored == PExaggerated
     IN  \A i, j \in Idx :
            IF iter <= stop_lying_iter
              THEN ~NLess(P[i][j], Eps)
              ELSE /\ ~NLess(P[i][j], NUnscale(Eps, RInt(exaggeration)))
                   /\ (floored[i][j] = Eps => P[i][j] = NUnscale(Eps, RInt(exaggeration)))

C3_Witness ==
  /\ pc = "gradient" /\ iter > stop_lying_iter
  /\ P[0][0] = NUnscale(Eps, RInt(exaggeration))
  /\ NLess(P[0][0], Eps)

\* C4 (as stated): the gradient of every iteration with index below 100 is
\* computed from the P scaled by 4, that of every iteration with index 100
\* or above from the unscaled P, P being divided once.
C4_ExaggeratedBelow100 ==
  InLoop =>
     LET scaled == PExaggerated
         unscaled == PTrue
     IN  /\ P \in {scaled, unscaled}
         /\ (pc = "update") =>
               PQ = Difference(IF iter < stop_lying_iter THEN scaled ELSE unscaled, Q)

\* C4 (amended): the gradient of every iteration with index 0 through 100 is
\* computed from the P scaled by 4 and that of every iteration with index 101
\* or above from the unscaled P: P is divided by 4 once, at the end of the
\* iteration with index 100, and is changed by nothing else in the loop.
C4_ExaggeratedThrough100 ==
  InLoop =>
     LET scaled == PExaggerated
         unscaled == PTrue
         used == IF iter <= stop_lying_iter THEN scaled ELSE unscaled
     IN  /\ P = used
         /\ scaled # unscaled
         /\ (pc = "update") => PQ = Difference(used, Q)

C4_Witness ==
  /\ pc = "update" /\ iter = stop_lying_iter
  /\ PQ = Difference(PExaggerated, Q)
  /\ PQ # Difference(PTrue, Q)

\* C5: every element of gains is at least min_gain = 0.01 from its creation
\* on, after the gain update of every iteration.
C5_GainsAtLeastMin ==
  (gains # Unset) => \A i \in Idx, c \in Dim : gains[i][c] >= Fix(min_gain)

C5_Witness ==
  /\ pc = "affinities" /\ iter > 0
  /\ \E i \in Idx, c \in Dim : gains[i][c] = Fix(min_gain)

\* how far a run of tsne has come: every statement moves it up
TsneRank ==
  CASE pc = "check" -> 0
    [] pc = "pca" -> 1
    [] pc = "init" -> 2
    [] pc = "x2p" -> 3
    [] pc = "symmetrize" -> 4
    [] pc = "normalize" -> 5
    [] pc = "exaggerate" -> 6
    [] pc = "floor" -> 7
    [] pc = "affinities" -> 8 + 3 * iter
    [] pc = "gradient" -> 9 + 3 * iter
    [] pc = "update" -> 10 + 3 * iter
    [] pc = "return" -> 8 + 3 * max_iter
    [] pc = "returned" -> 9 + 3 * max_iter

\* the positions at which tsne has a statement to run
TsneStatements ==
  {"check", "pca", "init", "x2p", "symmetrize", "normalize", "exaggerate",
   "floor", "affinities", "gradient", "update", "return"}

\* C6: for a float64 input tsne ends by returning Y after the loop body has
\* run for each index 0 .. 999 once.  Until it has returned a run stands at
\* a statement, and every step moves it on (so it ends); the index moves
\* only at the end of a body, and by one; the loop is left, and Y returned,
\* with all 1000 bodies done and not before.
C6_RunsAllIterations ==
  /\ []((X.dtype = "float64") =>
          /\ pc = "returned" \/ pc \in TsneStatements
          /\ iter <= max_iter
          /\ InLoop => iter < max_iter
          /\ pc \in {"return", "returned"} => iter = max_iter
          /\ pc = "returned" => ret = [kind |-> "array", val |-> Y])
  /\ [][/\ TsneRank' > TsneRank
        /\ iter' # iter => (pc = "update" /\ iter' = iter + 1)]_vars

C6_Witness == pc = "returned" /\ iter = max_iter /\ ret = [kind |-> "array", val |-> Y]

\* C7: from line 125 on P is symmetric: after the symmetrisation, the
\* normalisation, the scaling by 4, the floor, in every iteration and after
\* the division by 4.
C7_PSymmetric ==
  (pc \in {"normalize", "exaggerate", "floor"} \/ AfterFloor) =>
     \A i, j \in Idx : P[i][j] = P[j][i]

C7_Witness ==
  /\ pc = "gradient" /\ iter > stop_lying_iter
  /\ \E i, j \in Idx : RawOf(X.input)[i][j] # RawOf(X.input)[j][i]
  /\ \A i, j \in Idx : P[i][j] = P[j][i]

\* the larger of two gains
MaxGain(a, b) == IF a < b THEN b ELSE a

\* C8 (as stated): each element's gain becomes gain + 0.2 when the sign of
\* dY differs from the sign of iY and gain * 0.8 when the signs agree, then
\* is clamped to 0.01, for negative, zero and positive dY and iY.
C8_GainRuleBySign ==
  [][pc = "update" =>
       \A i \in Idx, c \in Dim :
          gains'[i][c] =
            MaxGain(IF Sgn(NSign(dY[i][c])) # Sgn(iY[i][c])
                      THEN gains[i][c] + Fix(gain_step)
                      ELSE FixMul(gains[i][c], gain_decay),
                    Fix(min_gain))]_vars

\* C8 (amended): each element's gain becomes gain + 0.2 when exactly one of
\* dY, iY is strictly positive and gain * 0.8 otherwise (both strictly
\* positive, or both zero or negative), then is clamped to 0.01.
C8_GainRuleByPositivity ==
  [][pc = "update" =>
       \A i \in Idx, c \in Dim :
          gains'[i][c] =
            MaxGain(IF (NSign(dY[i][c]) > 0 /\ iY[i][c] <= 0)
                        \/ (NSign(dY[i][c]) <= 0 /\ iY[i][c] > 0)
                      THEN gains[i][c] + Fix(gain_step)
                      ELSE FixMul(gains[i][c], gain_decay),
                    Fix(min_gain))]_vars

\* after the first iteration: a negative gradient element met the velocity 0
\* and its gain is 0.8
C8_Witness ==
  /\ pc = "affinities" /\ iter = 1
  /\ \E i \in Idx, c \in Dim :
        NSign(dY[i][c]) < 0 /\ gains[i][c] = FixMul(Fix(RInt(1)), gain_decay)

\* how far a run of x2p has come: every statement moves it up
X2pRank ==
  CASE xpc = "for" -> pt * (MaxTries + 3)
    [] xpc = "while" -> pt * (MaxTries + 3) + 1 + tries
    [] xpc = "returned" -> N * (MaxTries + 3) + 1

\* C9: the search of a point makes at most 50 updates and then stops,
\* converged or not; the row last evaluated is then written to the point's
\* row and the loop goes on; x2p is never stuck, every step moves it on (so
\* it ends), and it returns with every one of the N rows written.
C9_SearchCapped ==
  (xpc # "idle") =>
     /\ tries <= MaxTries
     /\ xpc = "returned" \/ ENABLED X2pNext
     /\ ~ENABLED (X2pNext /\ ~(X2pRank' > X2pRank))
     /\ (xpc = "while" /\ ~(Hdiff # 0 /\ tries < MaxTries)) =>
           ~ENABLED (X2pNext /\ ~(xpc' = "for" /\ xP'[pt] = thisP /\ pt' = pt + 1))
     /\ xpc = "returned" => (pt = N /\ \A j \in Idx : xP[j] # ZeroRow(j))

\* a point whose search hit the cap unconverged was written and left behind
C9_Witness ==
  /\ xpc = "for" /\ pt > 0
  /\ Hdiff # 0 /\ tries = MaxTries
  /\ xP[pt - 1] = thisP

\* C10: during the search of a point the precision is strictly inside its
\* bracket, betamin < beta[i] < betamax, and strictly positive; the row in
\* hand is the one evaluated at beta[i], and so is every row written.
C10_BetaInsideBracket ==
  /\ (xpc = "while") =>
        /\ DyLess(betamin, beta[pt])
        /\ DyLess(beta[pt], betamax)
        /\ beta[pt].m > 0
        /\ thisP = [pt |-> pt, at |-> beta[pt]]
  /\ (xpc \in {"for", "while", "returned"}) =>
        \A j \in Idx : j < pt => xP[j] = [pt |-> j, at |-> beta[j]]

\* both ends of the bracket are finite and the precision is a midpoint
C10_Witness ==
  /\ xpc = "while" /\ tries >= 3
  /\ ~IsInf(betamin) /\ ~IsInf(betamax)
  /\ beta[pt].m > 1

====
